---- MODULE Spec2Model ----
(***************************************************************************)
(* Reactive core of watch-history: the reducer App::update, the GitHub     *)
(* client / token manager / auth handler request chains and the token      *)
(* store, run by the crux core (event queue, effect requests resolved by   *)
(* the shell).                                                             *)
(*                                                                         *)
(* One state of the model is a state in which the core waits for the       *)
(* shell:                                                                  *)
(*   - Core::process_event and Core::resolve run update on the message     *)
(*     they are given and on every message the commands send back, in      *)
(*     queue order, before they return (Core::process); one step of the    *)
(*     model is one such call, and `plans` holds what each update call of  *)
(*     the step returned;                                                  *)
(*   - `tasks` holds every request chain a command has started and not     *)
(*     finished, with the one request it has outstanding (`pc`, `req`);    *)
(*   - the shell executes an outstanding request and delivers its result   *)
(*     in one step, in any order between chains;                           *)
(*   - a redirect request has no continuation: it is recorded in `plans`   *)
(*     and not kept outstanding.                                           *)
(***************************************************************************)
EXTENDS Integers, Sequences, FiniteSets, TLC

VARIABLES
    now,        \* the clock Utc::now() reads
    kv,         \* the shell's key-value store under GITHUB_TOKENS_STORAGE_KEY
    issued,     \* number of token pairs the provider has issued so far
    model,      \* Model: user_info, films
    tasks,      \* unfinished request chains, in start order
    plans,      \* the update calls of the last step: message and items of the command
    last,       \* the request chain that finished in the last step, if any
    crashed,    \* None, or Some(reason) once the process has panicked
    external,   \* number of external messages the shell has delivered
    loggedOut,  \* the last message the shell delivered was LogoutButtonClicked
    handled,    \* how often update has been called with each message type
    probe       \* None, or a function's arguments and the result of applying it

vars == <<now, kv, issued, model, tasks, plans, last, crashed, external, loggedOut,
          handled, probe>>

----------------------------------------------------------------------------
\* Bounds of the model

MaxTime == 1
MaxExternal == 2
MaxClock == 7
MaxNodes == 4     \* children of the root of a parsed watch-history file
MaxIssued == 3    \* token pairs the provider issues
MaxHandled == 2   \* calls of update counted per message type (more count as this)
OffsetBits == 4     \* width of expires_in and refresh_token_expires_in (u64, scaled)
MaxOffset == 5      \* largest offset a DateTime can be moved by (scaled)

----------------------------------------------------------------------------
\* Option<T>

None == <<>>
Some(x) == <<x>>
IsSome(o) == o # <<>>
Unwrap(o) == o[1]

----------------------------------------------------------------------------
\* tokens.rs

Token_new(token_type, access_token, expires_at) ==
    [token_type |-> token_type, access_token |-> access_token, expires_at |-> expires_at]

\* is_valid accepting the instant of expiry
is_valid_inclusive(token, t) == t <= token.expires_at

\* Token::is_valid, with t the value Utc::now() returns
is_valid(token, t) == t < token.expires_at

to_authorization_header_value(token) == <<token.token_type, token.access_token>>

Tokens_new(access_token, refresh_token) ==
    [access_token |-> access_token, refresh_token |-> refresh_token]

\* bincode::serialize(&tokens): the fields in declaration order
Serialize(tokens) ==
    << tokens.access_token.token_type, tokens.access_token.access_token,
       tokens.access_token.expires_at,
       tokens.refresh_token.token_type, tokens.refresh_token.access_token,
       tokens.refresh_token.expires_at >>

\* A deserialize that fills what a short blob lacks with defaults
DeserializeLenient(data) ==
    IF Len(data) = 6
    THEN Some(Tokens_new(Token_new(data[1], data[2], data[3]),
                         Token_new(data[4], data[5], data[6])))
    ELSE Some(Tokens_new(Token_new("", "", 0), Token_new("", "", 0)))

\* bincode::deserialize::<Tokens>(&data).ok(): a blob that does not hold the
\* six fields does not decode
Deserialize(data) ==
    IF Len(data) = 6
    THEN Some(Tokens_new(Token_new(data[1], data[2], data[3]),
                         Token_new(data[4], data[5], data[6])))
    ELSE None

\* Key-value requests and results
KvGet == [kind |-> "kv_get", body |-> <<>>]
KvSet(bytes) == [kind |-> "kv_set", body |-> bytes]
KvDelete == [kind |-> "kv_delete", body |-> <<>>]
KvOk(value) == [ok |-> TRUE, value |-> value]
KvErr == [ok |-> FALSE, value |-> None]

\* get_tokens falling back to a default pair when nothing decodes
get_tokens_map_or_default(x) ==
    IF x.ok /\ IsSome(x.value) /\ IsSome(Deserialize(Unwrap(x.value)))
    THEN Deserialize(Unwrap(x.value))
    ELSE Some(Tokens_new(Token_new("", "", 0), Token_new("", "", 0)))

\* TokenStore::get_tokens: the request and the map over its result
get_tokens_request == KvGet
get_tokens_map(x) ==
    IF x.ok /\ IsSome(x.value) THEN Deserialize(Unwrap(x.value)) ELSE None

\* TokenStore::set_tokens / remove_tokens: the request (the result is dropped)
set_tokens_request(tokens) == KvSet(Serialize(tokens))
remove_tokens_request == KvDelete

----------------------------------------------------------------------------
\* github.rs

\* The provider's n-th token response
\* <<expires_in, refresh_token_expires_in>>
Lifetimes == {<<1, 2>>}
AccessTokenResponse(n, expires_in, refresh_token_expires_in) ==
    [ access_token |-> <<"ghu", n>>, token_type |-> "bearer", scope |-> "",
      expires_in |-> expires_in,
      refresh_token |-> <<"ghr", n>>,
      refresh_token_expires_in |-> refresh_token_expires_in ]

\* From<GitHubAccessTokenResponse> building both tokens from value.access_token
TokensFromAccessTwice(value, t) ==
    Tokens_new(
        Token_new(value.token_type, value.access_token, t + value.expires_in),
        Token_new(value.token_type, value.access_token,
                  t + value.refresh_token_expires_in))

\* `as i64` of a u64: the same bits read as a signed number
AsI64(v) == IF v < 2 ^ (OffsetBits - 1) THEN v ELSE v - 2 ^ OffsetBits

\* now + Duration::seconds(secs) panics when the result is out of range
DurationInRange(secs) == -MaxOffset <= secs /\ secs <= MaxOffset

\* impl From<GitHubAccessTokenResponse> for Tokens, with t the one reading of
\* Utc::now() it takes
TokensFrom(value, t) ==
    Tokens_new(
        Token_new(value.token_type, value.access_token, t + AsI64(value.expires_in)),
        Token_new(value.token_type, value.refresh_token,
                  t + AsI64(value.refresh_token_expires_in)))

\* ... and whether it panics instead of returning
TokensFromPanics(value) ==
    \/ ~DurationInRange(AsI64(value.expires_in))
    \/ ~DurationInRange(AsI64(value.refresh_token_expires_in))

HttpRequest(method, url, headers, query) ==
    [kind |-> "http", body |-> [method |-> method, url |-> url,
                                headers |-> headers, query |-> query]]

TokenEndpoint == <<"https://github.com", <<"login", "oauth", "access_token">>>>
ApiBaseUrl == "https://api.github.com"
GITHUB_RAW_MEDIA_TYPE_NAME == "application/vnd.github.raw+json"
GITHUB_JSON_MEDIA_TYPE_NAME == "application/vnd.github+json"
ClientId == "client_id"
ClientSecret == "client_secret"
RedirectUri == "https://app/cb"

\* GitHubAuthenticationHandler::get_access_token
auth_get_access_token(query_params) ==
    HttpRequest("POST", TokenEndpoint,
                << <<"Accept", GITHUB_JSON_MEDIA_TYPE_NAME>> >>, query_params)

\* GitHubAuthenticationHandler::get_access_token_from_code
get_access_token_from_code(code) ==
    auth_get_access_token(<< <<"client_id", ClientId>>,
                             <<"client_secret", ClientSecret>>,
                             <<"redirect_uri", RedirectUri>>,
                             <<"code", code>> >>)

\* GitHubAuthenticationHandler::get_access_token_from_refresh_token
get_access_token_from_refresh_token(refresh_token) ==
    auth_get_access_token(<< <<"client_id", ClientId>>,
                             <<"client_secret", ClientSecret>>,
                             <<"grant_type", "refresh_token">>,
                             <<"refresh_token", refresh_token>> >>)

\* GitHubClient::build_url
build_url(endpoint) == <<ApiBaseUrl, endpoint>>

\* The authenticated GET of get_authenticated_user / get_file_contents
user_request(access_token) ==
    HttpRequest("GET", build_url(<<"user">>),
                << <<"Authorization", to_authorization_header_value(access_token)>>,
                   <<"Accept", GITHUB_JSON_MEDIA_TYPE_NAME>> >>, <<>>)

file_request(access_token, owner, repo, path) ==
    HttpRequest("GET", build_url(<<"repos", owner, repo, "contents", path>>),
                << <<"Authorization", to_authorization_header_value(access_token)>>,
                   <<"Accept", GITHUB_RAW_MEDIA_TYPE_NAME>> >>, <<>>)

\* get_access_token asking the refresh token first
RefreshDecisionRefreshFirst(tokens, t) ==
    IF is_valid(tokens.refresh_token, t) THEN "refresh"
    ELSE IF is_valid(tokens.access_token, t) THEN "use_access"
    ELSE "no_token"

\* get_access_token refreshing without asking whether the refresh token is valid
RefreshDecisionNoExpiry(tokens, t) ==
    IF is_valid(tokens.access_token, t) THEN "use_access" ELSE "refresh"

\* The branch GitHubTokenManager::get_access_token takes for a loaded pair,
\* once the write-through has been answered; t is the clock it reads
RefreshDecision(tokens, t) ==
    IF is_valid(tokens.access_token, t) THEN "use_access"
    ELSE IF is_valid(tokens.refresh_token, t) THEN "refresh"
    ELSE "no_token"

----------------------------------------------------------------------------
\* app.rs: the watch-history parser of Event::GotWatchHistoryFile
\*
\* A file is given by the children of its mdast root.  A text is a string of
\* the sample below; trim, to_lowercase and i16::from_str are tabulated on it.
\* The text of a list item is given by its segments between '-' characters.

Heading(depth, text) == [node |-> "heading", depth |-> depth, text |-> text, items |-> <<>>]
List(items) == [node |-> "list", depth |-> 0, text |-> "", items |-> items]
ParagraphNode == [node |-> "paragraph", depth |-> 0, text |-> "", items |-> <<>>]
ItemText(segments) == [item |-> "paragraph_text", segments |-> segments]
ItemOther == [item |-> "other", segments |-> <<>>]

trim(s) ==
    CASE s = " 2024 " -> "2024"
      [] s = " Good" -> "Good"
      [] s = " meh " -> "meh"
      [] s = "Dune " -> "Dune"
      [] s = " Heat " -> "Heat"
      [] s = "March " -> "March"
      [] OTHER -> s

to_lowercase(s) ==
    CASE s = "Good" -> "good"
      [] s = "March" -> "march"
      [] s = "MAY" -> "may"
      [] OTHER -> s

i16_from_str(s) ==
    CASE s = "2024" -> Some(2024)
      [] s = "2023" -> Some(2023)
      [] OTHER -> None

month_of_year_from_str(s) ==
    LET l == to_lowercase(trim(s)) IN
    CASE l = "january" -> Some(1)    [] l = "february" -> Some(2)
      [] l = "march" -> Some(3)      [] l = "april" -> Some(4)
      [] l = "may" -> Some(5)        [] l = "june" -> Some(6)
      [] l = "july" -> Some(7)       [] l = "august" -> Some(8)
      [] l = "september" -> Some(9)  [] l = "october" -> Some(10)
      [] l = "november" -> Some(11)  [] l = "december" -> Some(12)
      [] OTHER -> None

rating_from_str(s) ==
    LET l == to_lowercase(trim(s)) IN
    CASE l = "very bad" -> Some("VeryBad")   [] l = "bad" -> Some("Bad")
      [] l = "meh" -> Some("Meh")            [] l = "good" -> Some("Good")
      [] l = "very good" -> Some("VeryGood") [] l = "goat" -> Some("Goat")
      [] OTHER -> None

\* value.split_once('-'): the text before the first '-' and the segments after it
split_once(segments) ==
    IF Len(segments) >= 2 THEN Some(<<Head(segments), Tail(segments)>>) ELSE None

\* rating_from_str on the text after the first '-': a text that still holds a
\* '-' is none of the six ratings
rating_of_rest(rest) == IF Len(rest) = 1 THEN rating_from_str(rest[1]) ELSE None

\* One list item: the film it adds to the current month, if any
FilmOfItem(child) ==
    IF child.item = "paragraph_text" /\ IsSome(split_once(child.segments))
    THEN LET parts == Unwrap(split_once(child.segments))
             rating == rating_of_rest(parts[2])
         IN IF IsSome(rating)
            THEN Some([title |-> trim(parts[1]), rating |-> Unwrap(rating)])
            ELSE None
    ELSE None

RECURSIVE FilmsOfItems(_)
FilmsOfItems(children) ==
    IF children = <<>> THEN <<>>
    ELSE LET f == FilmOfItem(Head(children))
         IN (IF IsSome(f) THEN <<Unwrap(f)>> ELSE <<>>) \o FilmsOfItems(Tail(children))

\* The loop body adding a list's films to the first month of the year
ParseNodeFirstMonth(years, curr) ==
    LET n == Len(years) IN
    IF curr.node = "heading" /\ curr.depth = 2 /\ IsSome(i16_from_str(trim(curr.text)))
    THEN Append(years, [name |-> Unwrap(i16_from_str(trim(curr.text))), months |-> <<>>])
    ELSE IF curr.node = "heading" /\ curr.depth = 3
            /\ IsSome(month_of_year_from_str(curr.text)) /\ n > 0
    THEN [years EXCEPT ![n].months =
            Append(@, [month_of_year |-> Unwrap(month_of_year_from_str(curr.text)),
                       films |-> <<>>])]
    ELSE IF curr.node = "list" /\ n > 0 /\ Len(years[n].months) > 0
    THEN [years EXCEPT ![n].months[1].films = @ \o FilmsOfItems(curr.items)]
    ELSE years

\* One iteration of `for curr in root.children()`
ParseNode(years, curr) ==
    LET n == Len(years) IN
    IF curr.node = "heading" /\ curr.depth = 2 /\ IsSome(i16_from_str(trim(curr.text)))
    THEN Append(years, [name |-> Unwrap(i16_from_str(trim(curr.text))), months |-> <<>>])
    ELSE IF curr.node = "heading" /\ curr.depth = 3
            /\ IsSome(month_of_year_from_str(curr.text)) /\ n > 0
    THEN [years EXCEPT ![n].months =
            Append(@, [month_of_year |-> Unwrap(month_of_year_from_str(curr.text)),
                       films |-> <<>>])]
    ELSE IF curr.node = "list" /\ n > 0 /\ Len(years[n].months) > 0
    THEN LET k == Len(years[n].months)
         IN [years EXCEPT ![n].months[k].films = @ \o FilmsOfItems(curr.items)]
    ELSE years

RECURSIVE ParseNodes(_, _)
ParseNodes(years, children) ==
    IF children = <<>> THEN years
    ELSE ParseNodes(ParseNode(years, Head(children)), Tail(children))

RECURSIVE FilmsOfMonths(_, _)
FilmsOfMonths(year, months) ==
    IF months = <<>> THEN <<>>
    ELSE [i \in 1..Len(Head(months).films) |->
            [title |-> Head(months).films[i].title,
             rating |-> Head(months).films[i].rating,
             year_watched |-> year,
             month_of_year_watched |-> Head(months).month_of_year]]
         \o FilmsOfMonths(year, Tail(months))

RECURSIVE FilmsOfYears(_)
FilmsOfYears(years) ==
    IF years = <<>> THEN <<>>
    ELSE FilmsOfMonths(Head(years).name, Head(years).months) \o FilmsOfYears(Tail(years))

parse_films_from_list(root) == FilmsOfYears(ParseNodes(<<>>, root))

----------------------------------------------------------------------------
\* app.rs: messages, commands and the reducer

Ev(type, arg) == [type |-> type, arg |-> arg]

ExternalTypes == {"InitialLoad", "LoginButtonClicked", "LogoutButtonClicked",
                  "CallbackReceived"}

\* The variants of Event that the shell cannot send (#[serde(skip)])
InternalTypes == {"SetTokensInStore", "GetTokensFromStore", "GotTokensFromStore",
                  "RedirectToLogin", "GetTokensFromGitHub", "GotTokensFromGitHub",
                  "GetGithubUser", "GotGitHubUser", "OnTokensLoaded",
                  "GetWatchHistoryFile", "GotWatchHistoryFile"}

\* A command is the sequence of things it does when it is first run, in order:
\* a render notification, a message sent back to the core, or the start of a
\* request chain (op, its argument and the first request it hands the shell).
Render == <<[k |-> "render", v |-> <<>>]>>
CommandEvent(e) == <<[k |-> "event", v |-> e]>>
CommandRequest(op, arg, req) == <<[k |-> "request", v |-> [op |-> op, arg |-> arg, req |-> req]]>>
CommandDone == <<>>

\* Command::and: both run, the receiver's tasks first.  Command::then: the
\* second starts when the first is finished; every first command update builds
\* (a render, a message send) finishes when it is first run.
And(a, b) == a \o b
Then(a, b) == a \o b

UpdateOk(m, cmd) == [model |-> m, cmd |-> cmd, panic |-> None]
UpdatePanic(m, why) == [model |-> m, cmd |-> CommandDone, panic |-> Some(why)]

\* redirect.rs
redirect(url) == CommandRequest("redirect", url, [kind |-> "redirect", body |-> url])

\* A callback URL string: whether Url::parse accepts it, and its query pairs
CallbackUrl(wellformed, query) == [wellformed |-> wellformed, query |-> query]

\* query_pairs().find_map(|(key, val)| if key == "code" { Some(val) } else { None })
RECURSIVE find_code(_)
find_code(query) ==
    IF query = <<>> THEN None
    ELSE IF Head(query)[1] = "code" THEN Some(Head(query)[2])
    ELSE find_code(Tail(query))

AuthorizeEndpoint == <<"https://github.com", <<"login", "oauth", "authorize">>>>
StateLength == 16

\* InitialLoad reading the store itself
UpdateInitialLoadFromStore(m) ==
    UpdateOk(m, And(Render, CommandEvent(Ev("GetTokensFromStore", <<>>))))

UpdateInitialLoad(m) ==
    UpdateOk(m, And(Render, CommandEvent(Ev("GetGithubUser", <<>>))))

UpdateSetTokensInStore(m, store) ==
    UpdateOk(m, And(Render, CommandRequest("set_tokens", store, set_tokens_request(store))))

UpdateGetTokensFromStore(m) ==
    UpdateOk(m, And(Render, CommandRequest("get_tokens", <<>>, get_tokens_request)))

UpdateGotTokensFromStore(m, store) ==
    IF IsSome(store)
    THEN UpdateOk(m, And(Render, CommandEvent(Ev("OnTokensLoaded",
                [tokens |-> Unwrap(store), suppress_store |-> TRUE]))))
    ELSE UpdateOk(m, Render)

UpdateLoginButtonClicked(m) ==
    UpdateOk(m, And(Render, CommandEvent(Ev("RedirectToLogin", <<>>))))

\* Logout that leaves the cached user in the model
UpdateLogoutKeepsUser(m) ==
    UpdateOk(m, Then(Render, CommandRequest("remove_tokens", <<>>, remove_tokens_request)))

\* Logout that also empties the film list
UpdateLogoutClearsFilms(m) ==
    UpdateOk([m EXCEPT !.user_info = None, !.films = <<>>],
             Then(Render, CommandRequest("remove_tokens", <<>>, remove_tokens_request)))

UpdateLogoutButtonClicked(m) ==
    UpdateOk([m EXCEPT !.user_info = None],
             Then(Render, CommandRequest("remove_tokens", <<>>, remove_tokens_request)))

\* RedirectToLogin sending half of the sampled string as state
UpdateRedirectToLoginShortState(m, state) ==
    UpdateOk(m, redirect([url |-> AuthorizeEndpoint,
                          query |-> << <<"client_id", ClientId>>,
                                       <<"redirect_uri", RedirectUri>>,
                                       <<"state", SubSeq(state, 1, 8)>> >>]))

\* state is the string Alphanumeric.sample_string(&mut rng, 16) returned
UpdateRedirectToLogin(m, state) ==
    UpdateOk(m, redirect([url |-> AuthorizeEndpoint,
                          query |-> << <<"client_id", ClientId>>,
                                       <<"redirect_uri", RedirectUri>>,
                                       <<"state", state>> >>]))

\* CallbackReceived taking the value of the first query pair for the code
UpdateCallbackReceivedFirstPair(m, url) ==
    IF ~url.wellformed
    THEN UpdatePanic(m, "invalid callback URL")
    ELSE UpdateOk(m, And(Render, CommandEvent(Ev("GetTokensFromGitHub",
                IF url.query = <<>> THEN None ELSE Some(url.query[1][2])))))

\* CallbackReceived accepting the code only of a URL that carries a state
UpdateCallbackReceivedChecksState(m, url) ==
    IF ~url.wellformed
    THEN UpdatePanic(m, "invalid callback URL")
    ELSE UpdateOk(m, And(Render, CommandEvent(Ev("GetTokensFromGitHub",
                IF \E j \in 1..Len(url.query) : url.query[j][1] = "state"
                THEN find_code(url.query) ELSE None))))

UpdateCallbackReceived(m, url) ==
    IF ~url.wellformed
    THEN UpdatePanic(m, "invalid callback URL")
    ELSE UpdateOk(m, And(Render, CommandEvent(Ev("GetTokensFromGitHub", find_code(url.query)))))

\* GetTokensFromGitHub exchanging an empty code when there is none
UpdateGetTokensFromGitHubEmptyCode(m, code) ==
    LET c == IF IsSome(code) THEN Unwrap(code) ELSE ""
    IN UpdateOk(m, And(Render, CommandRequest("get_access_token_from_code", c,
                                              get_access_token_from_code(c))))

UpdateGetTokensFromGitHub(m, code) ==
    IF IsSome(code)
    THEN UpdateOk(m, And(Render, CommandRequest("get_access_token_from_code", Unwrap(code),
                                                get_access_token_from_code(Unwrap(code)))))
    ELSE UpdateOk(m, Render)

UpdateGotTokensFromGitHub(m, store) ==
    UpdateOk(m, And(Render, CommandEvent(Ev("OnTokensLoaded",
                [tokens |-> store, suppress_store |-> FALSE]))))

UpdateGetGithubUser(m) ==
    UpdateOk(m, And(Render, CommandRequest("get_authenticated_user", <<>>, get_tokens_request)))

UpdateGotGitHubUser(m, user) ==
    LET user_info == [login |-> user.login, name |-> user.name,
                      avatar_url |-> user.avatar_url]
    IN UpdateOk([m EXCEPT !.user_info = Some(user_info)],
                Then(Render, CommandEvent(Ev("GetWatchHistoryFile", user_info))))

\* OnTokensLoaded storing the pair whatever suppress_store says
UpdateOnTokensLoadedAlwaysStore(m, tokens, suppress_store) ==
    UpdateOk(m, And(Render,
                    Then(CommandEvent(Ev("SetTokensInStore", tokens)),
                         CommandEvent(Ev("GetGithubUser", <<>>)))))

\* OnTokensLoaded with the test of suppress_store inverted
UpdateOnTokensLoadedInverted(m, tokens, suppress_store) ==
    UpdateOk(m, And(Render,
                    Then(IF suppress_store
                         THEN CommandEvent(Ev("SetTokensInStore", tokens))
                         ELSE CommandDone,
                         CommandEvent(Ev("GetGithubUser", <<>>)))))

UpdateOnTokensLoaded(m, tokens, suppress_store) ==
    UpdateOk(m, And(Render,
                    Then(IF ~suppress_store
                         THEN CommandEvent(Ev("SetTokensInStore", tokens))
                         ELSE CommandDone,
                         CommandEvent(Ev("GetGithubUser", <<>>)))))

UpdateGetWatchHistoryFile(m, user_info) ==
    UpdateOk(m, CommandRequest("get_file_contents",
                               <<user_info.login, "notes", "watch_history.md">>,
                               get_tokens_request))

UpdateGotWatchHistoryFile(m, file) ==
    UpdateOk([m EXCEPT !.films = parse_films_from_list(file)], Render)

\* App::update; rnd is what the random generator yields if the arm asks it
update(msg, m, rnd) ==
    CASE msg.type = "InitialLoad" -> UpdateInitialLoad(m)
      [] msg.type = "SetTokensInStore" -> UpdateSetTokensInStore(m, msg.arg)
      [] msg.type = "GetTokensFromStore" -> UpdateGetTokensFromStore(m)
      [] msg.type = "GotTokensFromStore" -> UpdateGotTokensFromStore(m, msg.arg)
      [] msg.type = "LoginButtonClicked" -> UpdateLoginButtonClicked(m)
      [] msg.type = "LogoutButtonClicked" -> UpdateLogoutButtonClicked(m)
      [] msg.type = "RedirectToLogin" -> UpdateRedirectToLogin(m, rnd)
      [] msg.type = "CallbackReceived" -> UpdateCallbackReceived(m, msg.arg)
      [] msg.type = "GetTokensFromGitHub" -> UpdateGetTokensFromGitHub(m, msg.arg)
      [] msg.type = "GotTokensFromGitHub" -> UpdateGotTokensFromGitHub(m, msg.arg)
      [] msg.type = "GetGithubUser" -> UpdateGetGithubUser(m)
      [] msg.type = "GotGitHubUser" -> UpdateGotGitHubUser(m, msg.arg)
      [] msg.type = "OnTokensLoaded" ->
            UpdateOnTokensLoaded(m, msg.arg.tokens, msg.arg.suppress_store)
      [] msg.type = "GetWatchHistoryFile" -> UpdateGetWatchHistoryFile(m, msg.arg)
      [] msg.type = "GotWatchHistoryFile" -> UpdateGotWatchHistoryFile(m, msg.arg)

\* App::view
view(m) == [films |-> m.films, user_info |-> m.user_info]

\* IntoEvent::into_event for Result<T, GitHubApiError>: the message, or the panic
Ok(x) == [ok |-> TRUE, val |-> x, err |-> ""]
Err(e) == [ok |-> FALSE, val |-> <<>>, err |-> e]
\* into_event panicking on every error
into_event_panic_on_any(result, map) ==
    IF result.ok THEN [panic |-> None, event |-> Some(Ev(map, result.val))]
    ELSE [panic |-> Some(result.err), event |-> None]

\* into_event sending the request again when no token was available
into_event_retry(result, map) ==
    IF result.ok THEN [panic |-> None, event |-> Some(Ev(map, result.val))]
    ELSE IF result.err = "ReAuthenticationRequired"
    THEN [panic |-> None, event |-> Some(Ev("GetGithubUser", <<>>))]
    ELSE [panic |-> Some(result.err), event |-> None]

into_event(result, map) ==
    IF result.ok THEN [panic |-> None, event |-> Some(Ev(map, result.val))]
    ELSE IF result.err = "ReAuthenticationRequired"
    THEN [panic |-> None, event |-> Some(Ev("RedirectToLogin", <<>>))]
    ELSE [panic |-> Some(result.err), event |-> None]

----------------------------------------------------------------------------
\* The inputs the shell, the provider and the API can supply

\* A pair an earlier session persisted
StoredPair(access_expires_at, refresh_expires_at) ==
    Tokens_new(Token_new("bearer", <<"ghu", 0>>, access_expires_at),
               Token_new("bearer", <<"ghr", 0>>, refresh_expires_at))

\* <<access expiry, refresh expiry>> of the pair found at startup
InitialExpiries == {<<0, 0>>, <<0, 1>>, <<1, 2>>}

\* A blob bincode does not decode: a truncated pair
CorruptBlob == <<"bearer">>

InitialStores ==
    {None, Some(CorruptBlob)}
        \cup {Some(Serialize(StoredPair(e[1], e[2]))) : e \in InitialExpiries}

CallbackUrls ==
    { CallbackUrl(TRUE, << <<"code", "abc123">> >>),
      CallbackUrl(TRUE, << <<"state", "s">>, <<"code", "xyz789">> >>),
      CallbackUrl(TRUE, <<>>),
      CallbackUrl(FALSE, <<>>) }

\* Strings Alphanumeric.sample_string(&mut rng, 16) can return
RandomStates == {[i \in 1..StateLength |-> c] : c \in {"a", "7"}}

Users == {[login |-> "alice", name |-> "Alice", avatar_url |-> "https://a/alice.png"]}

WatchHistoryFiles ==
    { << List(<<ItemText(<<"Dune ", " Good">>)>>), Heading(3, "MAY"),
         Heading(2, " 2024 "), Heading(3, "March "),
         List(<<ItemText(<<"Dune ", " Good">>), ItemText(<<"Heat">>),
                ItemText(<<" Heat ", " meh ">>)>>) >> }

\* crux_http::HttpError: a non-2xx status, a transport failure, an undecodable body
HttpErrors == {"HttpError::Http", "HttpError::Io", "HttpError::Json"}

----------------------------------------------------------------------------
\* The core: Core::process_event, Core::process, Core::resolve

NoRequest == [kind |-> "none", body |-> <<>>]

RequestName(req) ==
    IF req.kind = "http"
    THEN (IF req.body.url = TokenEndpoint THEN "http_token" ELSE "http_api")
    ELSE req.kind

\* The request chain a command starts, with its first request outstanding.
\* log records the requests the chain has made; read, tokens, checked, fresh
\* and ret what the store answered its get, the pair get_tokens made of it,
\* the clock get_access_token read to decide, the pair a refresh gave it and
\* what get_access_token returned.  otl is None, or for a
\* chain started in the drain of an OnTokensLoaded message that message's
\* tokens and suppress_store and the number of key-value writes requested (by
\* any chain) since it was handled and before this chain asked the API.
NewTask(v, otl) ==
    [ op |-> v.op, arg |-> v.arg, pc |-> RequestName(v.req), req |-> v.req,
      read |-> None, tokens |-> None, checked |-> None, fresh |-> None, ret |-> None,
      log |-> <<RequestName(v.req)>>, otl |-> otl ]

NoTask ==
    [ op |-> "", arg |-> <<>>, pc |-> "none", req |-> NoRequest,
      read |-> None, tokens |-> None, checked |-> None, fresh |-> None, ret |-> None,
      log |-> <<>>, otl |-> None ]

NewModel == [user_info |-> None, films |-> <<>>]

ItemsOf(cmd, kind) == LET Test(it) == it.k = kind IN SelectSeq(cmd, Test)
EventsOf(cmd) == [i \in 1..Len(ItemsOf(cmd, "event")) |-> ItemsOf(cmd, "event")[i].v]
Awaited(cmd) ==
    LET Test(it) == it.k = "request" /\ it.v.op # "redirect" IN SelectSeq(cmd, Test)
TasksOf(cmd, otl) == [i \in 1..Len(Awaited(cmd)) |-> NewTask(Awaited(cmd)[i].v, otl)]
Redirects(cmd) ==
    LET Test(it) == it.k = "request" /\ it.v.op = "redirect"
    IN [i \in 1..Len(SelectSeq(cmd, Test)) |-> SelectSeq(cmd, Test)[i].v.arg]
SetsOf(cmd) ==
    LET Test(it) == it.k = "request" /\ it.v.req.kind = "kv_set"
    IN Len(SelectSeq(cmd, Test))
PlanItem(it) ==
    CASE it.k = "render" -> "render"
      [] it.k = "event" -> it.v.type
      [] it.k = "request" -> RequestName(it.v.req)
PlanOf(msg, u) ==
    [ msg |-> msg.type, arg |-> msg.arg,
      items |-> [i \in 1..Len(u.cmd) |-> PlanItem(u.cmd[i])],
      kinds |-> [i \in 1..Len(u.cmd) |-> u.cmd[i].k],
      redirects |-> Redirects(u.cmd), panic |-> u.panic ]

\* n more key-value writes have been requested: the chains that count them
\* and have not asked the API yet count n more
CountSets(ts, n) ==
    [i \in 1..Len(ts) |->
        IF IsSome(ts[i].otl) /\ ts[i].pc # "http_api"
        THEN [ts[i] EXCEPT !.otl = Some([Unwrap(@) EXCEPT !.writes = @ + n])]
        ELSE ts[i]]

\* Core::process: update on each queued message in order, and the first run of
\* the command it returns, until the queue is empty or update panics.  otl
\* counts the writes requested since an OnTokensLoaded of this drain.
RECURSIVE process(_, _, _, _, _, _)

\* ... the rest of the drain once update has returned u for the head of the queue
AfterUpdate(queue, u, ts, done, otl, rnd) ==
    LET msg == Head(queue)
        seen == IF msg.type = "OnTokensLoaded"
                THEN Some([tokens |-> msg.arg.tokens,
                           suppress_store |-> msg.arg.suppress_store, writes |-> 0])
                ELSE otl
        counted == IF IsSome(seen)
                   THEN Some([Unwrap(seen) EXCEPT !.writes = @ + SetsOf(u.cmd)])
                   ELSE None
    IN IF IsSome(u.panic)
       THEN [model |-> NewModel, tasks |-> <<>>,
             plans |-> Append(done, PlanOf(msg, u)), panic |-> u.panic]
       ELSE process(Tail(queue) \o EventsOf(u.cmd), u.model,
                    CountSets(ts, SetsOf(u.cmd)) \o TasksOf(u.cmd, counted),
                    Append(done, PlanOf(msg, u)), counted, rnd)

process(queue, m, ts, done, otl, rnd) ==
    IF queue = <<>>
    THEN [model |-> m, tasks |-> ts, plans |-> done, panic |-> None]
    ELSE AfterUpdate(queue, update(Head(queue), m, rnd), ts, done, otl, rnd)

\* What the random generator can yield in the drain of `queue`: only
\* RedirectToLogin asks it, and only these messages lead there
Random(queue) ==
    IF \E i \in 1..Len(queue) : queue[i].type \in {"LoginButtonClicked", "RedirectToLogin"}
    THEN RandomStates
    ELSE {CHOOSE rnd \in RandomStates : TRUE}

\* update logs every message it is called with ("Event handling started"):
\* the calls per message type after those of `done` have been added to h
NoneHandled == [type \in ExternalTypes \cup InternalTypes |-> 0]
Handle(h, done) ==
    [type \in DOMAIN h |->
        LET n == h[type] + Cardinality({i \in 1..Len(done) : done[i].msg = type})
        IN IF n > MaxHandled THEN MaxHandled ELSE n]

\* The core after a drain of the queue that ended as r
Drained(r) ==
    /\ model' = r.model
    /\ tasks' = r.tasks
    /\ plans' = r.plans
    /\ crashed' = r.panic
    /\ handled' = Handle(handled, r.plans)

Init ==
    /\ now = 0
    /\ kv \in InitialStores
    /\ issued = 0
    /\ model = NewModel
    /\ tasks = <<>>
    /\ plans = <<>>
    /\ last = NoTask
    /\ crashed = None
    /\ external = 0
    /\ loggedOut = FALSE
    /\ handled = NoneHandled
    /\ probe = None

\* Core::process_event: the shell delivers an external message
process_event(msg) ==
    /\ crashed = None
    /\ external < MaxExternal
    /\ external' = external + 1
    /\ loggedOut' = (msg.type = "LogoutButtonClicked")
    /\ \E rnd \in Random(<<msg>>) :
          Drained(process(<<msg>>, model, tasks, <<>>, None, rnd))
    /\ last' = NoTask
    /\ UNCHANGED <<now, kv, issued, probe>>

InitialLoad == process_event(Ev("InitialLoad", <<>>))
LoginButtonClicked == process_event(Ev("LoginButtonClicked", <<>>))
LogoutButtonClicked == process_event(Ev("LogoutButtonClicked", <<>>))
CallbackReceived == \E url \in CallbackUrls : process_event(Ev("CallbackReceived", url))

\* Time passes
Tick ==
    /\ crashed = None
    /\ now < MaxTime
    /\ now' = now + 1
    /\ last' = NoTask
    /\ plans' = <<>>
    /\ UNCHANGED <<kv, issued, model, tasks, crashed, external, loggedOut, handled,
                   probe>>

----------------------------------------------------------------------------
\* The request chains of github.rs and tokens.rs, one step per result the
\* shell delivers.  A step yields the chain's new record and, if the chain is
\* finished, the output it resolves to.

IsManaged(t) == t.op \in {"get_authenticated_user", "get_file_contents"}

Issue(t, req) ==
    [t EXCEPT !.pc = RequestName(req), !.req = req, !.log = Append(@, RequestName(req))]
Finish(t) == [t EXCEPT !.pc = "done", !.req = NoRequest]

Continue(t) == [task |-> t, out |-> None]
Output(t, out) == [task |-> Finish(t), out |-> Some(out)]

\* The authenticated request of the chain t for the access token it obtained
ApiRequest(t, access_token) ==
    IF t.op = "get_authenticated_user" THEN user_request(access_token)
    ELSE file_request(access_token, t.arg[1], t.arg[2], t.arg[3])

\* GitHubClient::get_authenticated_user / get_file_contents: the closure given
\* to then_request, run on what get_access_token returned
AfterAccessToken(t, access_token) ==
    IF IsSome(access_token)
    THEN Continue([Issue(t, ApiRequest(t, Unwrap(access_token)))
                     EXCEPT !.ret = Some(access_token)])
    ELSE Output([t EXCEPT !.ret = Some(access_token)], Err("ReAuthenticationRequired"))

\* GitHubTokenManager::get_access_token: the closure given to then_request, run
\* on what get_tokens returned
\* get_access_token going to the provider before it writes the pair back
AfterGetTokensRefreshFirst(t, tokens) ==
    IF IsSome(tokens)
    THEN Continue([Issue(t, get_access_token_from_refresh_token(
                                Unwrap(tokens).refresh_token.access_token))
                     EXCEPT !.tokens = tokens])
    ELSE AfterAccessToken(t, None)

AfterGetTokens(t, tokens) ==
    IF IsSome(tokens)
    THEN Continue([Issue(t, set_tokens_request(Unwrap(tokens))) EXCEPT !.tokens = tokens])
    ELSE AfterAccessToken(t, None)

\* ... and its continuation once the write-through has been answered, at time n
AfterWriteThrough(t0, n) ==
    LET t == [t0 EXCEPT !.checked = Some(n)]
        tokens == Unwrap(t.tokens)
        decision == RefreshDecision(tokens, n)
    IN CASE decision = "use_access" -> AfterAccessToken(t, Some(tokens.access_token))
         [] decision = "refresh" ->
              Continue(Issue(t, get_access_token_from_refresh_token(
                                    tokens.refresh_token.access_token)))
         [] decision = "no_token" -> AfterAccessToken(t, None)

\* The refresh returning the access token of the pair that was loaded
AfterRefreshStale(t, tokens) ==
    AfterAccessToken([t EXCEPT !.fresh = Some(tokens)], Some(Unwrap(t.tokens).access_token))

\* ... and once the refresh exchange has produced a pair
AfterRefresh(t, tokens) ==
    AfterAccessToken([t EXCEPT !.fresh = Some(tokens)], Some(tokens.access_token))

\* The message then_send makes of a finished chain's output, or the panic
ThenSend(t, out) ==
    CASE t.op = "get_tokens" -> [panic |-> None, event |-> Some(Ev("GotTokensFromStore", out))]
      [] t.op = "get_access_token_from_code" -> into_event(Ok(out), "GotTokensFromGitHub")
      [] t.op = "get_authenticated_user" -> into_event(out, "GotGitHubUser")
      [] t.op = "get_file_contents" -> into_event(out, "GotWatchHistoryFile")
      [] OTHER -> [panic |-> None, event |-> None]

RemoveAt(s, i) == SubSeq(s, 1, i - 1) \o SubSeq(s, i + 1, Len(s))

\* The process panics: it is gone, and what it held in memory with it
Panic(why) ==
    /\ crashed' = Some(why)
    /\ model' = NewModel
    /\ tasks' = <<>>
    /\ plans' = <<>>
    /\ handled' = handled

\* Core::resolve: chain i takes the step `step`, and the message it sends, if
\* any, is processed
resolve(i, step) ==
    LET sent == IF IsSome(step.out) THEN ThenSend(step.task, Unwrap(step.out))
                ELSE [panic |-> None, event |-> None]
        kept == IF step.task.pc = "done" THEN RemoveAt(tasks, i)
                ELSE [tasks EXCEPT ![i] = step.task]
        sets == IF step.task.pc = "kv_set" THEN 1 ELSE 0
        queue == IF IsSome(sent.event) THEN <<Unwrap(sent.event)>> ELSE <<>>
    IN /\ last' = IF step.task.pc = "done" THEN step.task ELSE NoTask
       /\ IF IsSome(sent.panic)
          THEN Panic(Unwrap(sent.panic))
          ELSE \E rnd \in Random(queue) :
                  Drained(process(queue, model, CountSets(kept, sets), <<>>, None, rnd))
       /\ UNCHANGED <<external, loggedOut, now, probe>>

\* A panic inside chain i
Abort(i, why) ==
    /\ Panic(why)
    /\ last' = [tasks[i] EXCEPT !.pc = "panicked", !.req = NoRequest]
    /\ UNCHANGED <<external, loggedOut, now, probe>>

Pending(i, name) == crashed = None /\ tasks[i].pc = name

\* The shell answers a key-value get
ResolveKvGet ==
    \E i \in 1..Len(tasks) : \E x \in {KvOk(kv), KvErr} :
        /\ Pending(i, "kv_get")
        /\ LET tokens == get_tokens_map(x)
               t == [tasks[i] EXCEPT !.read = Some(x)]
           IN IF IsManaged(t)
              THEN resolve(i, AfterGetTokens(t, tokens))
              ELSE resolve(i, Output(t, tokens))
        /\ UNCHANGED <<kv, issued>>

\* The shell answers a key-value set
ResolveKvSet ==
    \E i \in 1..Len(tasks) :
        /\ Pending(i, "kv_set")
        /\ kv' = Some(tasks[i].req.body)
        /\ IF IsManaged(tasks[i])
           THEN resolve(i, AfterWriteThrough(tasks[i], now))
           ELSE resolve(i, Continue(Finish(tasks[i])))
        /\ UNCHANGED issued

\* The shell answers a key-value delete
ResolveKvDelete ==
    \E i \in 1..Len(tasks) :
        /\ Pending(i, "kv_delete")
        /\ kv' = None
        /\ resolve(i, Continue(Finish(tasks[i])))
        /\ UNCHANGED issued

\* The provider answers a token exchange with a new pair
ResolveTokenOk ==
    \E i \in 1..Len(tasks) : \E l \in Lifetimes :
        /\ Pending(i, "http_token")
        /\ issued < MaxIssued
        /\ issued' = issued + 1
        /\ LET tokens == TokensFrom(AccessTokenResponse(issued + 1, l[1], l[2]), now)
           IN IF IsManaged(tasks[i])
              THEN resolve(i, AfterRefresh(tasks[i], tokens))
              ELSE resolve(i, Output(tasks[i], tokens))
        /\ UNCHANGED kv

\* The token exchange fails: x.ok().unwrap() panics
ResolveTokenErr ==
    \E i \in 1..Len(tasks) : \E err \in HttpErrors :
        /\ Pending(i, "http_token")
        /\ Abort(i, err)
        /\ UNCHANGED <<kv, issued>>

\* The API answers the authenticated request
ResolveApiOk ==
    \E i \in 1..Len(tasks) :
        /\ Pending(i, "http_api")
        /\ \E body \in (IF tasks[i].op = "get_authenticated_user"
                        THEN Users ELSE WatchHistoryFiles) :
              resolve(i, Output(tasks[i], Ok(body)))
        /\ UNCHANGED <<kv, issued>>

\* The authenticated request fails: `?` maps it to GitHubApiError::HttpError
ResolveApiErr ==
    \E i \in 1..Len(tasks) : \E err \in HttpErrors :
        /\ Pending(i, "http_api")
        /\ resolve(i, Output(tasks[i], Err(err)))
        /\ UNCHANGED <<kv, issued>>

Next ==
    \/ InitialLoad
    \/ LoginButtonClicked
    \/ LogoutButtonClicked
    \/ CallbackReceived
    \/ Tick
    \/ ResolveKvGet
    \/ ResolveKvSet
    \/ ResolveKvDelete
    \/ ResolveTokenOk
    \/ ResolveTokenErr
    \/ ResolveApiOk
    \/ ResolveApiErr

Spec == Init /\ [][Next]_vars

----------------------------------------------------------------------------
\* update called directly, as a test of the core does: one message of any
\* variant, local ones included, is given to a newly constructed core, and the
\* requests it leads to are answered

\* The pair a message carries
MessagePair == TokensFrom(AccessTokenResponse(7, 1, 2), 0)

AnyMessage(msg) == external = 0 /\ process_event(msg)

Dispatch ==
    \/ \E type \in {"InitialLoad", "LoginButtonClicked", "LogoutButtonClicked",
                    "RedirectToLogin", "GetTokensFromStore", "GetGithubUser"} :
          AnyMessage(Ev(type, <<>>))
    \/ \E url \in CallbackUrls : AnyMessage(Ev("CallbackReceived", url))
    \/ \E type \in {"SetTokensInStore", "GotTokensFromGitHub"} :
          AnyMessage(Ev(type, MessagePair))
    \/ \E store \in {None, Some(MessagePair)} : AnyMessage(Ev("GotTokensFromStore", store))
    \/ \E code \in {None, Some("abc123")} : AnyMessage(Ev("GetTokensFromGitHub", code))
    \/ \E user \in Users :
          \/ AnyMessage(Ev("GotGitHubUser", user))
          \/ AnyMessage(Ev("GetWatchHistoryFile", user))
    \/ \E file \in WatchHistoryFiles : AnyMessage(Ev("GotWatchHistoryFile", file))
    \/ \E suppress_store \in BOOLEAN :
          AnyMessage(Ev("OnTokensLoaded",
                        [tokens |-> MessagePair, suppress_store |-> suppress_store]))

NextUpdate ==
    \/ Dispatch
    \/ Tick
    \/ ResolveKvGet
    \/ ResolveKvSet
    \/ ResolveKvDelete
    \/ ResolveTokenOk
    \/ ResolveTokenErr
    \/ ResolveApiOk
    \/ ResolveApiErr

SpecUpdate == Init /\ [][NextUpdate]_vars

----------------------------------------------------------------------------
\* Properties

\* The request chains the state shows: the unfinished ones and the one that
\* finished (or panicked) in the last step
Chain(i) == IF i = 0 THEN last ELSE tasks[i]
Managed == {i \in 0..Len(tasks) : IsManaged(Chain(i))}

Count(log, name) == Cardinality({i \in 1..Len(log) : log[i] = name})

\* get_access_token has decided on a loaded pair
Decided(c) == IsManaged(c) /\ IsSome(c.tokens) /\ IsSome(c.checked)
AccessValid(c) == Unwrap(c.checked) < Unwrap(c.tokens).access_token.expires_at
RefreshValid(c) == Unwrap(c.checked) < Unwrap(c.tokens).refresh_token.expires_at
\* get_access_token has returned
Returned(c) == IsManaged(c) /\ IsSome(c.ret)

\* C1: a get_access_token that finds the access token expired and the refresh
\* token valid requests the refresh exchange exactly once, and what it returns
\* is the access token of the pair that exchange produced.
C1_OneRefreshReturnsNewToken ==
    \A k \in Managed : LET c == Chain(k) IN
        (Decided(c) /\ ~AccessValid(c) /\ RefreshValid(c)) =>
            /\ Count(c.log, "http_token") = 1
            /\ Returned(c) =>
                  /\ IsSome(c.fresh)
                  /\ c.ret = Some(Some(Unwrap(c.fresh).access_token))
                  /\ Unwrap(c.fresh).access_token # Unwrap(c.tokens).access_token

C1_Witness ==
    \E k \in Managed : LET c == Chain(k) IN
        /\ Decided(c) /\ ~AccessValid(c) /\ RefreshValid(c)
        /\ Returned(c) /\ IsSome(c.fresh) /\ c.pc = "http_api"

\* C2: a get_access_token that finds the access token valid returns that
\* stored access token and requests no token exchange: the only HTTP request
\* of the chain is the authenticated request made with it afterwards.
C2_ValidAccessNoHttp ==
    \A k \in Managed : LET c == Chain(k) IN
        (Decided(c) /\ AccessValid(c)) =>
            /\ c.ret = Some(Some(Unwrap(c.tokens).access_token))
            /\ c.fresh = None
            /\ c.log = <<"kv_get", "kv_set", "http_api">>
            /\ c.pc = "http_api" =>
                  c.req.body.headers[1] =
                     <<"Authorization",
                       to_authorization_header_value(Unwrap(c.tokens).access_token)>>

C2_Witness ==
    \E k \in Managed : LET c == Chain(k) IN Decided(c) /\ AccessValid(c) /\ c.pc = "http_api"

\* C3: a get_access_token that finds both tokens expired returns "no token"
\* and the chain makes no HTTP request at all.
C3_BothExpiredNoToken ==
    \A k \in Managed : LET c == Chain(k) IN
        (Decided(c) /\ ~AccessValid(c) /\ ~RefreshValid(c)) =>
            /\ c.ret = Some(None)
            /\ c.log = <<"kv_get", "kv_set">>
            /\ c.pc = "done"

C3_Witness ==
    \E k \in Managed : LET c == Chain(k) IN
        Decided(c) /\ ~AccessValid(c) /\ ~RefreshValid(c) /\ c.ret = Some(None)

\* C4: when the store answers the read with "no value", get_access_token
\* returns "no token" and the read is the only request of the chain; the
\* store is still empty.
C4_NoPairOnlyRead ==
    \A k \in Managed : LET c == Chain(k) IN
        c.read = Some(KvOk(None)) =>
            /\ c.ret = Some(None)
            /\ c.log = <<"kv_get">>
            /\ c.pc = "done"
            /\ c.tokens = None

C4_Witness ==
    \E k \in Managed : LET c == Chain(k) IN c.read = Some(KvOk(None)) /\ c.ret = Some(None) /\ kv = None

\* C5: once a refresh has given get_access_token a new pair, the store holds
\* that new pair.
C5_RefreshedPairPersisted ==
    \A k \in Managed : LET c == Chain(k) IN
        (IsSome(c.fresh) /\ Returned(c)) => kv = Some(Serialize(Unwrap(c.fresh)))

\* C6: the store never holds the access token of one exchange with the
\* refresh token of another: a stored pair that decodes is the access token
\* and the refresh token of the same response.
WholePair(p) ==
    /\ p.access_token.access_token[1] = "ghu"
    /\ p.refresh_token.access_token[1] = "ghr"
    /\ p.access_token.access_token[2] = p.refresh_token.access_token[2]

C6_StoredPairWhole ==
    (IsSome(kv) /\ IsSome(Deserialize(Unwrap(kv)))) =>
        WholePair(Unwrap(Deserialize(Unwrap(kv))))

C6_Witness ==
    /\ IsSome(kv) /\ IsSome(Deserialize(Unwrap(kv)))
    /\ Unwrap(Deserialize(Unwrap(kv))).access_token.access_token[2] >= 1
    /\ \E k \in Managed : LET c == Chain(k) IN IsSome(c.fresh) /\ Returned(c)

\* C7: when get_access_token returns "no token", the chain has made no API
\* request, the process has not panicked, and the next message update handles
\* is RedirectToLogin, whose command is one redirect request.
C7_NoTokenRedirects ==
    \A k \in Managed : LET c == Chain(k) IN
        c.ret = Some(None) =>
            /\ Count(c.log, "http_api") = 0
            /\ crashed = None
            /\ k = 0
            /\ Len(plans) = 1
            /\ plans[1].msg = "RedirectToLogin"
            /\ plans[1].items = <<"redirect">>
            /\ plans[1].panic = None

C7_Witness ==
    /\ \E k \in Managed : LET c == Chain(k) IN c.ret = Some(None) /\ c.op = "get_file_contents"
    /\ Len(plans) = 1 /\ plans[1].items = <<"redirect">>

\* C8: a failed authenticated request (user or file contents) does not abort
\* the process.
ApiAnswered(c) == IsManaged(c) /\ c.pc = "done" /\ c.log[Len(c.log)] = "http_api"

C8_ApiFailureRecoverable == ApiAnswered(last) => crashed = None

\* C9: a failed token exchange (authorization-code grant or refresh grant)
\* does not abort the process.
C9_ExchangeFailureRecoverable ==
    (last.log # <<>> /\ last.log[Len(last.log)] = "http_token") => crashed = None

\* C10 (as claimed): when the user fetch that follows OnTokensLoaded with
\* suppress_store = false asks the API, exactly one key-value write has been
\* requested since that message.
FromOnTokensLoaded(c, suppress_store) ==
    /\ c.op = "get_authenticated_user"
    /\ IsSome(c.otl)
    /\ Unwrap(c.otl).suppress_store = suppress_store
    /\ c.pc = "http_api"

C10_ExactlyOneWrite ==
    \A k \in Managed : LET c == Chain(k) IN FromOnTokensLoaded(c, FALSE) => Unwrap(c.otl).writes = 1

\* C10 (amended): ... at least two key-value writes have been requested since
\* that message, the one of SetTokensInStore and the write-through of the
\* user fetch's own get_access_token, and exactly two when this is the only
\* external message the core has been given.
C10_TwoWrites ==
    \A k \in Managed : LET c == Chain(k) IN
        FromOnTokensLoaded(c, FALSE) =>
            /\ Unwrap(c.otl).writes >= 2
            /\ Count(c.log, "kv_set") = 1
            /\ external = 1 => Unwrap(c.otl).writes = 2

C10_Witness ==
    \E k \in Managed : LET c == Chain(k) IN
        FromOnTokensLoaded(c, FALSE) /\ external = 1 /\ Unwrap(c.otl).writes = 2

\* The chains started in the drain of an OnTokensLoaded with this suppress_store
AfterOnTokensLoaded(c, suppress_store) ==
    IsSome(c.otl) /\ Unwrap(c.otl).suppress_store = suppress_store

\* The step just taken handled OnTokensLoaded with this suppress_store
HandledOnTokensLoaded(i, suppress_store) ==
    /\ plans[i].msg = "OnTokensLoaded"
    /\ plans[i].arg.suppress_store = suppress_store

\* C11 (as claimed): after OnTokensLoaded with suppress_store = true no
\* key-value write is requested, by the handling of the message or by the user
\* fetch it starts.
C11_NoWriteAtAll ==
    \A k \in Managed : LET c == Chain(k) IN
        AfterOnTokensLoaded(c, TRUE) =>
            Unwrap(c.otl).writes = 0 /\ Count(c.log, "kv_set") = 0

\* C11 (amended): the handling of OnTokensLoaded with suppress_store = true
\* sends no SetTokensInStore and requests no key-value write, only the
\* GetGithubUser that follows; the user fetch it starts requests one
\* write, the write-through of the pair it read, exactly when the store gave
\* it a pair.
C11_OnlyWriteThrough ==
    /\ \A i \in 1..Len(plans) :
          HandledOnTokensLoaded(i, TRUE) =>
              /\ plans[i].items = <<"render", "GetGithubUser">>
              /\ Len(plans) = i + 1
              /\ plans[i + 1].msg = "GetGithubUser"
              /\ plans[i + 1].items = <<"render", "kv_get">>
    /\ \A k \in Managed : LET c == Chain(k) IN
          AfterOnTokensLoaded(c, TRUE) =>
              /\ Unwrap(c.otl).writes = Count(c.log, "kv_set")
              /\ Count(c.log, "kv_set") = (IF IsSome(c.tokens) THEN 1 ELSE 0)
              /\ c.read = Some(KvOk(None)) => Count(c.log, "kv_set") = 0

C11_Witness ==
    \E k \in Managed : LET c == Chain(k) IN
        /\ AfterOnTokensLoaded(c, TRUE)
        /\ c.pc = "http_api"
        /\ Unwrap(c.otl).writes = 1

\* C12: the store read of the user fetch that follows OnTokensLoaded with
\* suppress_store = false, for a pair from an authorization-code exchange, is
\* answered with that pair, in whatever order the host answers the requests.
C12_ReadSeesNewPair ==
    \A k \in Managed : LET c == Chain(k) IN
        (/\ AfterOnTokensLoaded(c, FALSE)
         /\ c.op = "get_authenticated_user"
         /\ external = 1
         /\ IsSome(c.read) /\ Unwrap(c.read).ok) =>
            Unwrap(c.read) = KvOk(Some(Serialize(Unwrap(c.otl).tokens)))

\* The step just taken was the delivery of this external message
Delivered(type) == plans # <<>> /\ plans[1].msg = type

\* C13: handling LogoutButtonClicked leaves Model.user_info = None and
\* requests a render and one key-value delete, nothing else: no message, no
\* HTTP request, no key-value write, no redirect.
C13_LogoutPlan ==
    Delivered("LogoutButtonClicked") =>
        /\ Len(plans) = 1
        /\ plans[1].items = <<"render", "kv_delete">>
        /\ plans[1].redirects = <<>>
        /\ plans[1].panic = None /\ crashed = None
        /\ model.user_info = None
        /\ view(model).user_info = None
        /\ tasks # <<>>
        /\ LET t == tasks[Len(tasks)]
           IN /\ t.op = "remove_tokens"
              /\ t.req = remove_tokens_request
              /\ t.log = <<"kv_delete">>

C13_Witness ==
    /\ Delivered("LogoutButtonClicked")
    /\ model.films # <<>>
    /\ IsSome(kv)

\* C14: once LogoutButtonClicked has been handled, with no message after it,
\* and every request has been answered, the store holds nothing.
C14_StoreEmptyAfterLogout ==
    (loggedOut /\ tasks = <<>> /\ crashed = None) => kv = None

\* C15: after LogoutButtonClicked has been handled, with no message after
\* it, Model.user_info is None, whatever results are delivered.
C15_UserStaysCleared ==
    loggedOut => (model.user_info = None /\ view(model).user_info = None)

\* C16: the command update returns for a message, whatever the message,
\* requests a render exactly once.
C16_RenderExactlyOnce ==
    \A i \in 1..Len(plans) :
        plans[i].panic = None => Count(plans[i].items, "render") = 1

\* C17: in the command update returns for a message, nothing comes after the
\* render: every request and every message it sends comes before it.
C17_RenderLast ==
    \A i \in 1..Len(plans) :
        \A j \in 1..Len(plans[i].items) :
            plans[i].items[j] = "render" => j = Len(plans[i].items)

\* The characters of rand's Alphanumeric distribution
Letters == {"a", "b", "c", "d", "e", "f", "g", "h", "i", "j", "k", "l", "m",
            "n", "o", "p", "q", "r", "s", "t", "u", "v", "w", "x", "y", "z"}
Capitals == {"A", "B", "C", "D", "E", "F", "G", "H", "I", "J", "K", "L", "M",
             "N", "O", "P", "Q", "R", "S", "T", "U", "V", "W", "X", "Y", "Z"}
Digits == {"0", "1", "2", "3", "4", "5", "6", "7", "8", "9"}
IsAlphanumeric(str, n) ==
    Len(str) = n /\ \A i \in 1..Len(str) : str[i] \in Letters \cup Capitals \cup Digits

\* C18: LoginButtonClicked sends RedirectToLogin, whose command is one
\* redirect request and nothing else; neither requests HTTP or the key-value
\* store.  The URL is the provider's authorize endpoint with the configured
\* client_id and redirect_uri and a state of 16 alphanumeric characters.
C18_LoginRedirect ==
    Delivered("LoginButtonClicked") =>
        /\ crashed = None
        /\ Len(plans) = 2
        /\ plans[1].items = <<"render", "RedirectToLogin">>
        /\ plans[2].msg = "RedirectToLogin"
        /\ plans[2].items = <<"redirect">>
        /\ Len(plans[1].redirects) = 0
        /\ Len(plans[2].redirects) = 1
        /\ LET url == plans[2].redirects[1]
           IN /\ url.url = <<"https://github.com", <<"login", "oauth", "authorize">>>>
              /\ Len(url.query) = 3
              /\ url.query[1] = <<"client_id", ClientId>>
              /\ url.query[2] = <<"redirect_uri", RedirectUri>>
              /\ url.query[3][1] = "state"
              /\ IsAlphanumeric(url.query[3][2], 16)

C18_Witness ==
    /\ Delivered("LoginButtonClicked")
    /\ Len(plans) = 2 /\ Len(plans[2].redirects) = 1
    /\ plans[2].redirects[1].query[3][2][1] = "7"
    /\ tasks # <<>>

\* The positions of the code parameter in the query of a callback URL
CodeAt(url) == {j \in 1..Len(url.query) : url.query[j][1] = "code"}

\* C19: CallbackReceived(url) with code = c in the query leads to one request,
\* the POST of the authorization-code grant to the token endpoint with
\* code = c; and when that exchange succeeds the messages that follow are
\* GotTokensFromGitHub and OnTokensLoaded with suppress_store = false and the
\* pair of the exchange.
C19_CallbackExchangesCode ==
    /\ (/\ Delivered("CallbackReceived")
        /\ plans[1].arg.wellformed
        /\ CodeAt(plans[1].arg) # {}) =>
          LET c == plans[1].arg.query[CHOOSE j \in CodeAt(plans[1].arg) : TRUE][2]
          IN /\ crashed = None
             /\ Len(plans) = 2
             /\ plans[1].items = <<"render", "GetTokensFromGitHub">>
             /\ plans[2].msg = "GetTokensFromGitHub"
             /\ plans[2].items = <<"render", "http_token">>
             /\ tasks # <<>>
             /\ LET t == tasks[Len(tasks)]
                IN /\ t.op = "get_access_token_from_code"
                   /\ t.log = <<"http_token">>
                   /\ t.req.kind = "http"
                   /\ t.req.body.method = "POST"
                   /\ t.req.body.url =
                        <<"https://github.com", <<"login", "oauth", "access_token">>>>
                   /\ t.req.body.query = << <<"client_id", ClientId>>,
                                            <<"client_secret", ClientSecret>>,
                                            <<"redirect_uri", RedirectUri>>,
                                            <<"code", c>> >>
    /\ (last.op = "get_access_token_from_code" /\ last.pc = "done" /\ crashed = None) =>
          /\ Len(plans) = 4
          /\ plans[1].msg = "GotTokensFromGitHub"
          /\ plans[1].items = <<"render", "OnTokensLoaded">>
          /\ plans[2].msg = "OnTokensLoaded"
          /\ plans[2].arg = [tokens |-> plans[1].arg, suppress_store |-> FALSE]
          /\ WholePair(plans[1].arg)

C19_Witness ==
    /\ last.op = "get_access_token_from_code" /\ last.pc = "done" /\ crashed = None
    /\ last.arg = "xyz789"
    /\ Len(plans) = 4 /\ plans[2].msg = "OnTokensLoaded"

\* C20: CallbackReceived(url) for a well-formed URL with no code parameter
\* requests renders only: no request chain is started, nothing is redirected,
\* the store is not touched and the model is what it was.
C20_NoCodeOnlyRender ==
    [][ (/\ plans' # <<>>
         /\ plans'[1].msg = "CallbackReceived"
         /\ plans'[1].arg.wellformed
         /\ CodeAt(plans'[1].arg) = {}) =>
            /\ model' = model
            /\ tasks' = tasks
            /\ kv' = kv
            /\ crashed' = None
            /\ Len(plans') = 2
            /\ plans'[1].items = <<"render", "GetTokensFromGitHub">>
            /\ plans'[2].msg = "GetTokensFromGitHub"
            /\ plans'[2].arg = None
            /\ plans'[2].items = <<"render">>
            /\ plans'[1].redirects = <<>> /\ plans'[2].redirects = <<>> ]_vars

C20_Witness ==
    /\ Delivered("CallbackReceived")
    /\ plans[1].arg.wellformed
    /\ CodeAt(plans[1].arg) = {}
    /\ IsSome(model.user_info)
    /\ tasks # <<>>

\* C21: CallbackReceived with a URL that does not parse is not fatal: update
\* returns, and what it returns is a render and nothing else.
C21_MalformedNonFatal ==
    (Delivered("CallbackReceived") /\ ~plans[1].arg.wellformed) =>
        /\ crashed = None
        /\ plans[1].panic = None
        /\ plans[1].items = <<"render">>

\* The store answered the read with an error, or with a blob that is no pair
ReadFailed(c) ==
    IsSome(c.read) /\
        (~Unwrap(c.read).ok \/ Unwrap(c.read).value = Some(CorruptBlob))

\* C22: when the key-value read fails or the blob does not decode,
\* get_tokens yields None and get_access_token returns "no token": the read
\* is the only request of the chain (no write-through, no HTTP), the store is
\* left as it is, nothing panics, and the caller goes on to RedirectToLogin.
C22_UnreadableIsNoTokens ==
    \A k \in Managed : LET c == Chain(k) IN
        ReadFailed(c) =>
            /\ c.tokens = None
            /\ c.ret = Some(None)
            /\ c.log = <<"kv_get">>
            /\ c.pc = "done"
            /\ crashed = None
            /\ Len(plans) = 1
            /\ plans[1].msg = "RedirectToLogin"
            /\ plans[1].panic = None

C22_Witness ==
    /\ \E k \in Managed : LET c == Chain(k) IN
          c.read = Some(KvOk(Some(CorruptBlob))) /\ c.ret = Some(None)
    /\ kv = Some(CorruptBlob)

----------------------------------------------------------------------------
\* Token::is_valid applied to a token at an evaluation time

Instants == 0..MaxClock

InitIsValid ==
    /\ now = 0 /\ kv = None /\ issued = 0 /\ model = NewModel /\ tasks = <<>>
    /\ plans = <<>> /\ last = NoTask /\ crashed = None /\ external = 0
    /\ loggedOut = FALSE /\ handled = NoneHandled
    /\ \E expires_at \in Instants, t \in Instants :
          probe = Some([token |-> Token_new("bearer", <<"ghu", 0>>, expires_at),
                        t |-> t, valid |-> None])

CallIsValid ==
    /\ IsSome(probe)
    /\ Unwrap(probe).valid = None
    /\ probe' = Some([Unwrap(probe) EXCEPT
                         !.valid = Some(is_valid(Unwrap(probe).token, Unwrap(probe).t))])
    /\ UNCHANGED <<now, kv, issued, model, tasks, plans, last, crashed, external,
                   loggedOut, handled>>

NextIsValid == CallIsValid

SpecIsValid == InitIsValid /\ [][NextIsValid]_vars

\* C23: is_valid is true exactly when the evaluation time is strictly before
\* expires_at; at the instant of expiry the token is invalid.
C23_ValidIffBeforeExpiry ==
    (IsSome(probe) /\ IsSome(Unwrap(probe).valid)) =>
        LET p == Unwrap(probe)
        IN /\ Unwrap(p.valid) = (p.t < p.token.expires_at)
           /\ p.t = p.token.expires_at => Unwrap(p.valid) = FALSE

C23_Witness ==
    /\ IsSome(probe)
    /\ Unwrap(probe).valid = Some(FALSE)
    /\ Unwrap(probe).t = Unwrap(probe).token.expires_at
    /\ Unwrap(probe).t > 0

----------------------------------------------------------------------------
\* From<GitHubAccessTokenResponse> for Tokens applied to a response at the
\* time it is received

Offsets == 0..(2 ^ OffsetBits - 1)

InitTokensFrom ==
    /\ now = 0 /\ kv = None /\ issued = 0 /\ model = NewModel /\ tasks = <<>>
    /\ plans = <<>> /\ last = NoTask /\ crashed = None /\ external = 0
    /\ loggedOut = FALSE /\ handled = NoneHandled
    /\ \E expires_in \in Offsets, refresh_token_expires_in \in Offsets,
          t \in {0, MaxClock} :
          probe = Some([value |-> AccessTokenResponse(1, expires_in,
                                                      refresh_token_expires_in),
                        t |-> t, result |-> None])

CallTokensFrom ==
    /\ IsSome(probe)
    /\ Unwrap(probe).result = None
    /\ LET p == Unwrap(probe)
       IN probe' = Some([p EXCEPT !.result =
                            IF TokensFromPanics(p.value)
                            THEN Some([panic |-> TRUE, tokens |-> None])
                            ELSE Some([panic |-> FALSE,
                                       tokens |-> Some(TokensFrom(p.value, p.t))])])
    /\ UNCHANGED <<now, kv, issued, model, tasks, plans, last, crashed, external,
                   loggedOut, handled>>

NextTokensFrom == CallTokensFrom

SpecTokensFrom == InitTokensFrom /\ [][NextTokensFrom]_vars

\* C24: the pair made of a token response received at time T has
\* access_token.expires_at = T + expires_in and refresh_token.expires_at =
\* T + refresh_token_expires_in, so neither expiry is before T.
C24_ExpiryIsReceiptPlusOffset ==
    (IsSome(probe) /\ IsSome(Unwrap(probe).result)) =>
        LET p == Unwrap(probe)
            r == Unwrap(p.result)
        IN /\ ~r.panic
           /\ Unwrap(r.tokens).access_token.expires_at = p.t + p.value.expires_in
           /\ Unwrap(r.tokens).refresh_token.expires_at =
                 p.t + p.value.refresh_token_expires_in
           /\ Unwrap(r.tokens).access_token.expires_at >= p.t

----------------------------------------------------------------------------
\* The callback URL `url` with its state parameter taken out (state = None) or
\* set to a given value
WithState(url, state) ==
    LET NotState(pair) == pair[1] # "state"
    IN CallbackUrl(url.wellformed,
                   (IF IsSome(state) THEN << <<"state", Unwrap(state)>> >> ELSE <<>>)
                       \o SelectSeq(url.query, NotState))

\* The state values a callback can carry: none, or any string a login issued
CallbackStates == {None} \cup {Some(state) : state \in RandomStates}

\* Two drains made the same calls of update with the same commands; the
\* argument of the first message, the callback URL, is left out
SamePlans(p, q) ==
    /\ Len(p) = Len(q)
    /\ \A i \in 1..Len(p) :
          /\ p[i].msg = q[i].msg
          /\ p[i].items = q[i].items
          /\ p[i].kinds = q[i].kinds
          /\ p[i].redirects = q[i].redirects
          /\ p[i].panic = q[i].panic
          /\ i > 1 => p[i].arg = q[i].arg

\* C25: the state of the callback URL is not validated.  Whenever
\* CallbackReceived(url) is handled, the same URL with any other state value,
\* or none, given to the core in the same condition, or to a core that has
\* handled nothing before (no RedirectToLogin, so no state was ever issued),
\* leads to the same commands, the same follow-up messages, the same request
\* chains and the same model: a code that is present is always exchanged.
C25_StateNotValidated ==
    [][ (plans' # <<>> /\ plans'[1].msg = "CallbackReceived") =>
            \A state \in CallbackStates :
                LET msg == Ev("CallbackReceived", WithState(plans'[1].arg, state))
                    rnd == CHOOSE x \in RandomStates : TRUE
                    same == process(<<msg>>, model, tasks, <<>>, None, rnd)
                    new == process(<<msg>>, NewModel, <<>>, <<>>, None, rnd)
                IN /\ SamePlans(same.plans, plans')
                   /\ same.panic = crashed'
                   /\ same.model = model'
                   /\ same.tasks = tasks'
                   /\ SamePlans(new.plans, plans')
                   /\ new.panic = crashed'
                   /\ crashed' = None => tasks' = tasks \o new.tasks
                   /\ (plans'[1].arg.wellformed /\ CodeAt(plans'[1].arg) # {}) =>
                         /\ Len(new.tasks) = 1
                         /\ new.tasks[1].op = "get_access_token_from_code" ]_vars

\* A login issued a state, and the callback that follows carries another one
\* and a code, which is exchanged
C25_Witness ==
    /\ Delivered("CallbackReceived")
    /\ handled["RedirectToLogin"] >= 1
    /\ handled["LoginButtonClicked"] >= 1
    /\ plans[1].arg.query = << <<"state", "s">>, <<"code", "xyz789">> >>
    /\ tasks # <<>>
    /\ tasks[Len(tasks)].op = "get_access_token_from_code"

----------------------------------------------------------------------------
\* One external message is given to a newly constructed core, and the shell
\* answers every request the core makes

Single(msg) == external = 0 /\ process_event(msg)

Deliver ==
    \/ \E type \in {"InitialLoad", "LoginButtonClicked", "LogoutButtonClicked"} :
          Single(Ev(type, <<>>))
    \/ \E url \in CallbackUrls : Single(Ev("CallbackReceived", url))

\* The shell answers one outstanding request
Answer ==
    \/ ResolveKvGet
    \/ ResolveKvSet
    \/ ResolveKvDelete
    \/ ResolveTokenOk
    \/ ResolveTokenErr
    \/ ResolveApiOk
    \/ ResolveApiErr

NextSingle ==
    \/ Deliver
    \/ Tick
    \/ Answer

SpecSingle == Init /\ [][NextSingle]_vars

\* The requests one chain can make, in order
ChainRequests == <<"kv_get", "kv_set", "http_token", "http_api">>

\* A request is outstanding that the shell can answer
Outstanding(t) ==
    t.pc \in {"kv_get", "kv_set", "kv_delete", "http_token", "http_api"}

RECURSIVE Made(_)
Made(ts) == IF ts = <<>> THEN 0 ELSE Len(Head(ts).log) + Made(Tail(ts))

\* What is left to do: the internal messages update has not been called with
\* yet, each of which starts at most one chain, and the requests the
\* unfinished chains can still make, the answer they wait for included
Remaining ==
    (Len(ChainRequests) + 1)
        * (Cardinality({type \in InternalTypes : handled[type] = 0}) + Len(tasks))
      - Made(tasks)

\* C26: after one external message update is called at most once with each
\* internal message type, and the core comes to rest after finitely many
\* answers: every unfinished chain waits for an answer the shell can give
\* (messages are never left pending: a step handles all that are queued), and
\* every answer makes what is left to do less, which is never less than
\* nothing.  At rest no request is outstanding.
C26_NoRetryLoop ==
    [][ /\ \A type \in InternalTypes : handled'[type] <= 1
        /\ \A i \in 1..Len(tasks') : Outstanding(tasks'[i])
        /\ Remaining' >= 0
        /\ (external' = external /\ now' = now) => Remaining' < Remaining ]_vars

\* The longest chain has come to rest: callback, exchange, store, user fetch
\* and file fetch
C26_Witness ==
    /\ external = 1
    /\ tasks = <<>>
    /\ crashed = None
    /\ handled["CallbackReceived"] = 1
    /\ handled["OnTokensLoaded"] = 1
    /\ handled["SetTokensInStore"] = 1
    /\ handled["GotWatchHistoryFile"] = 1
    /\ model.films # <<>>

----------------------------------------------------------------------------
IsPrefix(p, q) == Len(p) <= Len(q) /\ p = SubSeq(q, 1, Len(p))

\* C27: an authenticated operation that found a stored pair makes its
\* requests one at a time and in this order: the key-value read, one
\* key-value write of the pair that was read, requested before the clock is
\* read, whichever way the decision then goes, at most one refresh exchange,
\* and the API request.
C27_RequestOrder ==
    \A k \in Managed : LET c == Chain(k) IN
        IsSome(c.tokens) =>
            /\ \/ IsPrefix(c.log, <<"kv_get", "kv_set", "http_token", "http_api">>)
               \/ IsPrefix(c.log, <<"kv_get", "kv_set", "http_api">>)
            /\ Len(c.log) >= 2
            /\ c.pc \in {"done", "panicked"} \/ c.pc = c.log[Len(c.log)]
            /\ c.pc = "kv_set" =>
                  /\ c.checked = None
                  /\ c.req = set_tokens_request(Unwrap(c.tokens))
                  /\ Some(c.req.body) = Unwrap(c.read).value
            /\ c.checked = None => (c.pc = "kv_set" /\ c.log = <<"kv_get", "kv_set">>)
            /\ (Decided(c) /\ AccessValid(c)) =>
                  IsPrefix(<<"kv_get", "kv_set", "http_api">>, c.log)
            /\ (Decided(c) /\ ~AccessValid(c) /\ RefreshValid(c)) =>
                  IsPrefix(<<"kv_get", "kv_set", "http_token">>, c.log)
            /\ (Decided(c) /\ ~AccessValid(c) /\ ~RefreshValid(c)) =>
                  (c.log = <<"kv_get", "kv_set">> /\ c.pc = "done")

\* A file fetch that has made all four requests
C27_Witness ==
    \E k \in Managed : LET c == Chain(k) IN
        /\ c.op = "get_file_contents"
        /\ c.log = <<"kv_get", "kv_set", "http_token", "http_api">>
        /\ c.pc = "http_api"
        /\ c.checked = Some(1)

----------------------------------------------------------------------------
\* The refresh exchanges requested so far: those the provider has answered
\* with a pair and those outstanding (a failed one ends the process)
RefreshesRequested ==
    issued + Cardinality({i \in 1..Len(tasks) : tasks[i].pc = "http_token"})

\* C28: in the chain one InitialLoad starts, the refresh exchange is
\* requested at most once, user fetch and file fetch taken together.
C28_OneRefreshPerLoad ==
    (external = 1 /\ handled["InitialLoad"] = 1) => RefreshesRequested <= 1

----------------------------------------------------------------------------
\* C29: whatever the shell sends and answers, update is never called with
\* GetTokensFromStore or GotTokensFromStore; so every OnTokensLoaded it is
\* called with has suppress_store = false, no chain is a bare get_tokens, and
\* the store is read only by the chains of the token manager.
C29_StorePathUnreachable ==
    /\ handled["GetTokensFromStore"] = 0
    /\ handled["GotTokensFromStore"] = 0
    /\ \A i \in 1..Len(plans) :
          plans[i].msg = "OnTokensLoaded" => plans[i].arg.suppress_store = FALSE
    /\ \A k \in 0..Len(tasks) : LET c == Chain(k) IN
          /\ c.op # "get_tokens"
          /\ IsSome(c.otl) => Unwrap(c.otl).suppress_store = FALSE
          /\ (c.log # <<>> /\ c.log[1] = "kv_get") => IsManaged(c)

\* OnTokensLoaded is handled while a user fetch started by InitialLoad has
\* the stored pair in hand
C29_Witness ==
    /\ \E i \in 1..Len(plans) : plans[i].msg = "OnTokensLoaded"
    /\ handled["InitialLoad"] = 1
    /\ handled["OnTokensLoaded"] = 1
    /\ \E k \in 1..Len(tasks) :
          tasks[k].op = "get_authenticated_user" /\ IsSome(tasks[k].tokens)

----------------------------------------------------------------------------
\* What the model `m` must be after update was called with `msg`
Framed(msg, m) ==
    CASE msg.type = "LogoutButtonClicked" -> [m EXCEPT !.user_info = None]
      [] msg.type = "GotGitHubUser" ->
            [m EXCEPT !.user_info = Some([login |-> msg.arg.login, name |-> msg.arg.name,
                                          avatar_url |-> msg.arg.avatar_url])]
      [] msg.type = "GotWatchHistoryFile" ->
            [m EXCEPT !.films = parse_films_from_list(msg.arg)]
      [] OTHER -> m

\* The step handled a message of this type
Handled(ps, type) == \E i \in 1..Len(ps) : ps[i].msg = type

\* C30: update changes user_info only for LogoutButtonClicked (to None) and
\* GotGitHubUser (to the fetched user) and films only for
\* GotWatchHistoryFile, and leaves the model as it is for every other
\* message; so a step in which the process does not panic changes user_info
\* or films only if it handled such a message, logout leaves the films, and
\* the view model is the films and user_info the model then holds.
C30_ModelFrame ==
    [][ /\ \A i \in 1..Len(plans') :
              LET msg == Ev(plans'[i].msg, plans'[i].arg)
                  rnd == CHOOSE x \in RandomStates : TRUE
              IN /\ update(msg, model, rnd).model = Framed(msg, model)
                 /\ update(msg, model', rnd).model = Framed(msg, model')
        /\ crashed' = None =>
              /\ model'.user_info # model.user_info =>
                    \/ Handled(plans', "LogoutButtonClicked") /\ model'.user_info = None
                    \/ Handled(plans', "GotGitHubUser") /\ IsSome(model'.user_info)
              /\ model'.films # model.films => Handled(plans', "GotWatchHistoryFile")
              /\ Handled(plans', "LogoutButtonClicked") =>
                    (model'.films = model.films /\ model'.user_info = None)
              /\ view(model') = [films |-> model'.films, user_info |-> model'.user_info]
      ]_vars

\* Logout is handled by a core that holds a user's films
C30_Witness ==
    /\ Delivered("LogoutButtonClicked")
    /\ handled["GotGitHubUser"] = 1
    /\ handled["GotWatchHistoryFile"] = 1
    /\ view(model).films # <<>>
    /\ view(model).user_info = None

----------------------------------------------------------------------------
\* parse_films_from_list applied to the root of a parsed file

\* The children the root can have: year headings, a level-2 heading that is
\* no year, month headings, a level-3 heading that is no month, lists, and a
\* paragraph
NodeChoices ==
    { Heading(2, " 2024 "), Heading(2, "2023"), Heading(2, "Notes"),
      Heading(3, "March "), Heading(3, "MAY"), Heading(3, "Smarch"),
      List(<<ItemText(<<"Dune ", " Good">>), ItemText(<<"Heat">>)>>),
      List(<<ItemText(<<"Alien", "great">>), ItemOther, ItemText(<<" Heat ", " meh ">>),
             ItemText(<<"Spider", "Man", " Good">>)>>),
      ParagraphNode }

Documents == UNION {[1..n -> NodeChoices] : n \in 0..MaxNodes}

InitParse ==
    /\ now = 0 /\ kv = None /\ issued = 0 /\ model = NewModel /\ tasks = <<>>
    /\ plans = <<>> /\ last = NoTask /\ crashed = None /\ external = 0
    /\ loggedOut = FALSE /\ handled = NoneHandled
    /\ \E root \in Documents : probe = Some([root |-> root, films |-> None])

CallParse ==
    /\ IsSome(probe)
    /\ Unwrap(probe).films = None
    /\ probe' = Some([Unwrap(probe) EXCEPT
                         !.films = Some(parse_films_from_list(Unwrap(probe).root))])
    /\ UNCHANGED <<now, kv, issued, model, tasks, plans, last, crashed, external,
                   loggedOut, handled>>

NextParse == CallParse

SpecParse == InitParse /\ [][NextParse]_vars

\* A level-2 heading that names a year, a level-3 heading that names a month
IsYearHeading(n) ==
    n.node = "heading" /\ n.depth = 2 /\ trim(n.text) \in {"2023", "2024"}
IsMonthHeading(n) ==
    /\ n.node = "heading" /\ n.depth = 3
    /\ to_lowercase(trim(n.text)) \in
          {"january", "february", "march", "april", "may", "june", "july",
           "august", "september", "october", "november", "december"}

Latest(S) == IF S = {} THEN 0 ELSE CHOOSE i \in S : \A k \in S : k <= i

\* The position of the most recent year heading before position j, and of
\* the most recent month heading before j and after that year heading; 0 if
\* there is none
YearAt(root, j) == Latest({i \in 1..(j - 1) : IsYearHeading(root[i])})
MonthAt(root, j) ==
    IF YearAt(root, j) = 0 THEN 0
    ELSE Latest({i \in (YearAt(root, j) + 1)..(j - 1) : IsMonthHeading(root[i])})

SixRatings == {"very bad", "bad", "meh", "good", "very good", "goat"}

\* A list item is accepted: its text has a '-' and what follows the first
\* '-' is one of the six ratings
Accepted(item) ==
    /\ item.item = "paragraph_text"
    /\ Len(item.segments) = 2
    /\ to_lowercase(trim(item.segments[2])) \in SixRatings

\* The films the list at position j must contribute
FilmsAt(root, j) ==
    IF root[j].node # "list" \/ MonthAt(root, j) = 0 THEN <<>>
    ELSE LET items == SelectSeq(root[j].items, Accepted)
         IN [i \in 1..Len(items) |->
                [title |-> trim(items[i].segments[1]),
                 rating |-> Unwrap(rating_from_str(items[i].segments[2])),
                 year_watched |->
                     Unwrap(i16_from_str(trim(root[YearAt(root, j)].text))),
                 month_of_year_watched |->
                     Unwrap(month_of_year_from_str(root[MonthAt(root, j)].text))]]

RECURSIVE FilmsFrom(_, _)
FilmsFrom(root, j) ==
    IF j > Len(root) THEN <<>> ELSE FilmsAt(root, j) \o FilmsFrom(root, j + 1)

\* C31: the films parse_films_from_list produces are the accepted items of
\* the lists, each with the year of the most recent year heading before its
\* list and the month of the most recent month heading after that year
\* heading and before the list.  So a list with no year heading before it, or
\* with no month heading since the last year heading, gives no film; a month
\* heading before any year heading counts for nothing; an item whose rating
\* is none of the six gives no film; and every month is in 1..12.
C31_FilmsAttributed ==
    (IsSome(probe) /\ IsSome(Unwrap(probe).films)) =>
        LET root == Unwrap(probe).root
            films == Unwrap(Unwrap(probe).films)
        IN /\ films = FilmsFrom(root, 1)
           /\ \A i \in 1..Len(films) : films[i].month_of_year_watched \in 1..12
           /\ (\A j \in 1..Len(root) : ~IsYearHeading(root[j])) => films = <<>>
           /\ (\A j \in 1..Len(root) :
                    root[j].node = "list" => MonthAt(root, j) = 0) => films = <<>>

\* A month heading comes before any year heading and is ignored, and of the
\* list under 2024 and March one item is taken and one skipped
C31_Witness ==
    /\ IsSome(probe)
    /\ Unwrap(probe).root = << Heading(3, "MAY"), Heading(2, " 2024 "),
                               Heading(3, "March "),
                               List(<<ItemText(<<"Dune ", " Good">>),
                                      ItemText(<<"Heat">>)>>) >>
    /\ Unwrap(probe).films =
          Some(<< [title |-> "Dune", rating |-> "Good", year_watched |-> 2024,
                   month_of_year_watched |-> 3] >>)

====
